---- MODULE Spec2Model ----
(***************************************************************************)
(* State-machine model of matgendb/vv/report.py: the report data model     *)
(* (Table, Header, Report, ReportSection), the HTML / JSON / Markdown      *)
(* formatters and the Emailer.                                             *)
(*                                                                         *)
(* Python values are records [t, n, s]: an int is [t |-> "int", n |-> k,   *)
(* s |-> <<>>], a str is [t |-> "str", n |-> 0, s |-> <<chars>>] with one  *)
(* one-character string per character.  A rendered text line is a sequence *)
(* of chunks: a literal of the source is one chunk, formatted values are   *)
(* spliced in character by character.                                      *)
(***************************************************************************)
EXTENDS Integers, Sequences, FiniteSets, TLC

VARIABLES
    tbl,      \* a stand-alone Table object
    call,     \* the last call made: operation, argument, exception, result
    nodes,    \* the heap of Report / ReportSection objects; nodes[1] is the Report
    out,      \* what the last call returned, when it was a formatter's (or the exception it raised)
    emailer,  \* the Emailer object's configuration
    smtp      \* the SMTP calls the last Emailer.send made

vars == <<tbl, call, nodes, out, emailer, smtp>>

(***************************************************************************)
(* Bounds                                                                  *)
(***************************************************************************)
MaxRows == 3
MaxSections == 3
MaxKV == 2
MaxBodyRows == 2
MaxRecipients == 2

(***************************************************************************)
(* Python values                                                           *)
(***************************************************************************)
PyInt(k) == [t |-> "int", n |-> k, s |-> <<>>]
PyStr(cs) == [t |-> "str", n |-> 0, s |-> cs]

\* characters in ASCII order
CharOrder == <<"-", "0", "1", "2", "3", "4", "5", "6", "7", "8", "9",
               "a", "b", "d", "i", "n", "x", "z">>

Ord(c) == CHOOSE i \in 1..Len(CharOrder) : CharOrder[i] = c

DigitChar(d) == CharOrder[d + 2]

RECURSIVE Digits(_)
Digits(k) == IF k < 10 THEN <<DigitChar(k)>>
             ELSE Digits(k \div 10) \o <<DigitChar(k % 10)>>

\* str(v): decimal digits with a leading minus sign for an int, the string itself for a str
str(v) == IF v.t = "int"
          THEN (IF v.n < 0 THEN <<"-">> \o Digits(-v.n) ELSE Digits(v.n))
          ELSE v.s

\* bool(v): 0 and '' are false
Truthy(v) == IF v.t = "int" THEN v.n # 0 ELSE v.s # <<>>

RECURSIVE StrLess(_, _)
StrLess(a, b) ==
    IF a = <<>> THEN b # <<>>
    ELSE IF b = <<>> THEN FALSE
    ELSE IF Head(a) # Head(b) THEN Ord(Head(a)) < Ord(Head(b))
    ELSE StrLess(Tail(a), Tail(b))

\* a < b in Python 2: numbers compare numerically, strings lexicographically,
\* and a number is smaller than any string
PyLess(a, b) ==
    IF a.t = "int" /\ b.t = "int" THEN a.n < b.n
    ELSE IF a.t = "int" THEN TRUE
    ELSE IF b.t = "int" THEN FALSE
    ELSE StrLess(a.s, b.s)

isinstance_int(v) == v.t = "int"

(***************************************************************************)
(* Table                                                                   *)
(***************************************************************************)
\* Table.__init__(colnames)
Table(colnames) ==
    [_colnames |-> colnames,
     _rows |-> <<>>,
     _width |-> Len(colnames),
     _max_col_widths |-> [i \in 1..Len(colnames) |-> Len(colnames[i])]]

NoTable == Table(<<>>)

nrow(t) == Len(t._rows)

ncol(t) == t._width

column_widths(t) == t._max_col_widths

column_names(t) == t._colnames

\* WidenFor storing the new value's length without comparing it to the tracked width
WidenFor_NoCompare(widths, values) ==
    [i \in 1..Len(widths) |-> Len(str(values[i]))]

\* the for-loop of Table.add: widen every column the new row's value overflows
WidenFor(widths, values) ==
    [i \in 1..Len(widths) |->
        IF widths[i] < Len(str(values[i])) THEN Len(str(values[i])) ELSE widths[i]]

\* add rejecting only the rows that are too long
add_AcceptsShort(t, values) ==
    IF Len(values) > t._width
    THEN [t |-> t, raised |-> "ValueError"]
    ELSE [t |-> [t EXCEPT !._rows = Append(t._rows, values)], raised |-> "none"]

\* Table.add(values): the table after the call and the exception raised
add(t, values) ==
    IF Len(values) # t._width
    THEN [t |-> t, raised |-> "ValueError"]
    ELSE [t |-> [t EXCEPT !._rows = Append(t._rows, values),
                          !._max_col_widths = WidenFor(t._max_col_widths, values)],
          raised |-> "none"]

\* operator.itemgetter(i)(row), with Python's negative indexing
itemgetter(row, i) == IF i < 0 THEN row[Len(row) + i + 1] ELSE row[i + 1]

\* list.index(x): the zero-based position of the first equal element, -1 for ValueError
index(lst, x) ==
    IF \E i \in 1..Len(lst) : lst[i] = x
    THEN (CHOOSE i \in 1..Len(lst) : lst[i] = x /\ \A j \in 1..(i - 1) : lst[j] # x) - 1
    ELSE -1

\* an unstable insertion step: x goes before the first row whose key is not smaller
RECURSIVE InsertByKey_Unstable(_, _, _)
InsertByKey_Unstable(sorted, x, colnum) ==
    IF sorted = <<>> THEN <<x>>
    ELSE IF ~PyLess(itemgetter(Head(sorted), colnum), itemgetter(x, colnum))
         THEN <<x>> \o sorted
         ELSE <<Head(sorted)>> \o InsertByKey_Unstable(Tail(sorted), x, colnum)

\* one step of a stable sort: x goes before the first row whose key is greater
RECURSIVE InsertByKey(_, _, _)
InsertByKey(sorted, x, colnum) ==
    IF sorted = <<>> THEN <<x>>
    ELSE IF PyLess(itemgetter(x, colnum), itemgetter(Head(sorted), colnum))
         THEN <<x>> \o sorted
         ELSE <<Head(sorted)>> \o InsertByKey(Tail(sorted), x, colnum)

\* list.sort(key=itemgetter(colnum)): stable, ascending
RECURSIVE SortByKey(_, _)
SortByKey(rows, colnum) ==
    IF rows = <<>> THEN <<>>
    ELSE InsertByKey(SortByKey(SubSeq(rows, 1, Len(rows) - 1), colnum),
                     rows[Len(rows)], colnum)

\* a range test that lets Python's negative indices through
IndexOutOfRange_Negative(t, idx) == idx < -t._width \/ idx >= t._width

\* the range test of Table.sortby on an integer index
IndexOutOfRange(t, idx) == idx < 0 \/ idx >= t._width

\* Table.sortby(name_or_index)
sortby(t, name_or_index) ==
    IF ~isinstance_int(name_or_index)
    THEN (IF index(t._colnames, name_or_index.s) = -1
          THEN [t |-> t, raised |-> "ValueError"]
          ELSE [t |-> [t EXCEPT !._rows =
                         SortByKey(t._rows, index(t._colnames, name_or_index.s))],
                raised |-> "none"])
    ELSE (IF IndexOutOfRange(t, name_or_index.n)
          THEN [t |-> t, raised |-> "ValueError"]
          ELSE [t |-> [t EXCEPT !._rows = SortByKey(t._rows, name_or_index.n)],
                raised |-> "none"])

\* Table.values: one mapping from column name to value per row
values(t) ==
    [r \in 1..Len(t._rows) |->
        [c \in {t._colnames[i] : i \in 1..t._width} |->
            t._rows[r][CHOOSE i \in 1..t._width :
                         t._colnames[i] = c /\ \A j \in (i + 1)..t._width : t._colnames[j] # c]]]

(***************************************************************************)
(* Header                                                                  *)
(***************************************************************************)
\* Header.__init__(title)
Header(title) == [title |-> title, _kv |-> <<>>]

\* Header.add(key, value)
Header_add(h, key, value) == [h EXCEPT !._kv = Append(h._kv, <<key, value>>)]

\* the keys of a header's entries
Keys(h) == {h._kv[i][1] : i \in 1..Len(h._kv)}

\* Header.to_dict(): a later entry replaces an earlier one with the same key
to_dict(h) ==
    [k \in Keys(h) |->
        h._kv[CHOOSE i \in 1..Len(h._kv) :
                 h._kv[i][1] = k /\ \A j \in (i + 1)..Len(h._kv) : h._kv[j][1] # k][2]]

(***************************************************************************)
(* Report and ReportSection: objects on a heap, children held by reference *)
(***************************************************************************)
None == <<>>

Some(x) == <<x>>

\* Report.__init__(header); _total_rows is an attribute only is_empty creates
Report(header) ==
    [_hdr |-> header, _sections |-> <<>>, _body |-> None, _total_rows |-> None]

\* ReportSection.__init__(header, body)
ReportSection(header, body) ==
    [_hdr |-> header, _sections |-> <<>>, _body |-> body, _total_rows |-> None]

\* the Report object is the first one allocated
Root == 1

\* Report.add_section(section), with the section allocated next on the heap
add_section(heap, parent, section) ==
    [Append(heap, section) EXCEPT ![parent]._sections = Append(@, Len(heap) + 1)]

RECURSIVE SumSeq(_)
SumSeq(q) == IF q = <<>> THEN 0 ELSE Head(q) + SumSeq(Tail(q))

\* _count_rows that looks at the section's own body only
_count_rows_NoRecursion(heap, sect) ==
    IF heap[sect]._body # None THEN nrow(heap[sect]._body[1]) ELSE 0

\* Report._count_rows(sect): what the call adds to _total_rows
RECURSIVE _count_rows(_, _)
_count_rows(heap, sect) ==
    (IF heap[sect]._body # None THEN nrow(heap[sect]._body[1]) ELSE 0)
    + SumSeq([k \in 1..Len(heap[sect]._sections) |->
                 _count_rows(heap, heap[sect]._sections[k])])

\* Report.is_empty(): the heap after the call and the value returned
is_empty(heap, r) ==
    IF Len(heap[r]._sections) = 0
    THEN [heap |-> heap, ret |-> TRUE]
    ELSE LET total == SumSeq([k \in 1..Len(heap[r]._sections) |->
                                 _count_rows(heap, heap[r]._sections[k])])
         IN [heap |-> [heap EXCEPT ![r]._total_rows = Some(total)],
             ret |-> total = 0]

(***************************************************************************)
(* Text                                                                    *)
(***************************************************************************)
RECURSIVE Flatten(_)
Flatten(qs) == IF qs = <<>> THEN <<>> ELSE Head(qs) \o Flatten(Tail(qs))

\* sep.join(lines)
RECURSIVE Join(_, _)
Join(lines, sep) ==
    IF lines = <<>> THEN <<>>
    ELSE IF Len(lines) = 1 THEN lines[1]
    ELSE lines[1] \o sep \o Join(Tail(lines), sep)

\* text.split(sep) for a separator that is one chunk
RECURSIVE split(_, _)
split(text, sep) ==
    IF \A k \in 1..Len(text) : text[k] # sep THEN <<text>>
    ELSE LET k == CHOOSE k \in 1..Len(text) :
                     text[k] = sep /\ \A j \in 1..(k - 1) : text[j] # sep
         IN <<SubSeq(text, 1, k - 1)>> \o split(SubSeq(text, k + 1, Len(text)), sep)

\* 'pre{}post'.format(x), x already rendered
Fmt(pre, x, post) == <<pre>> \o x \o <<post>>

(***************************************************************************)
(* HTMLFormatter                                                           *)
(***************************************************************************)
\* HTMLFormatter.__init__ defaults
HtmlSep == <<"\n">>
DEFAULT_CSS == <<"DEFAULT_CSS">>

\* the <dt>/<dd> lines of one header
HtmlHeaderLines(h) ==
    Flatten([k \in 1..Len(h._kv) |->
                <<Fmt("<dt>", h._kv[k][1], "</dt>"),
                  Fmt("<dd>", str(h._kv[k][2]), "</dd>")>>])

\* the test that decides whether a row repeats the previous identifier
SameKey(prev_key, key) == prev_key # None /\ Truthy(prev_key[1]) /\ key = prev_key[1]

\* without list(row) the blanked list would be the stored row itself
StoredAfter_Aliased(row, rendered) == rendered

\* row = list(row): the formatter writes to a copy, the stored row keeps its cells
StoredAfter(row, rendered) == row

\* the body of the row loop from row k on: for every row the lines emitted and
\* the stored row as the loop leaves it
RECURSIVE HtmlRowLoop(_, _, _, _, _)
HtmlRowLoop(rows, k, prev_key, i, idcol) ==
    IF k > Len(rows) THEN <<>>
    ELSE LET key == itemgetter(rows[k], idcol)
             same == SameKey(prev_key, key)
             pos == IF idcol < 0 THEN Len(rows[k]) + idcol + 1 ELSE idcol + 1
             row == IF same THEN [rows[k] EXCEPT ![pos] = PyStr(<<>>)] ELSE rows[k]
             i2 == IF same THEN i ELSE i + 1
             rclass == <<"even", "odd">>[(i2 % 2) + 1]
         IN <<[lines |-> <<Fmt("<tr class=\"", <<rclass>>, "\">")>>
                         \o [c \in 1..Len(row) |-> Fmt("<td>", str(row[c]), "</td>")]
                         \o << <<"</tr>">> >>,
               stored |-> StoredAfter(rows[k], row)]>>
            \o HtmlRowLoop(rows, k + 1, IF same THEN prev_key ELSE Some(key), i2, idcol)

\* the lines of one condition section whose body is a Table
HtmlCondLines(heap, c, idcol) ==
    LET body == heap[c]._body[1]
        loop == HtmlRowLoop(body._rows, 1, None, 0, idcol)
    IN << Fmt("<h3>", heap[c]._hdr.title, "</h3>"), <<"<dl class=\"subsectmeta\">">> >>
       \o HtmlHeaderLines(heap[c]._hdr)
       \o << <<"</dl>">>, <<"<table>">>, <<"<tr>">> >>
       \o [n \in 1..Len(column_names(body)) |-> Fmt("<th>", column_names(body)[n], "</th>")]
       \o << <<"</tr>">> >>
       \o Flatten([k \in 1..Len(loop) |-> loop[k].lines])
       \o << <<"</table>">> >>

\* the lines of one top-level section
HtmlSectionLines(heap, sct, idcol) ==
    << Fmt("<h2>", heap[sct]._hdr.title, "</h2>"), <<"<dl class=\"sectmeta\">">> >>
    \o HtmlHeaderLines(heap[sct]._hdr)
    \o << <<"</dl>">> >>
    \o Flatten([k \in 1..Len(heap[sct]._sections) |->
                   HtmlCondLines(heap, heap[sct]._sections[k], idcol)])

\* the condition sections a formatter walks: the children of the top-level sections
CondSections(heap) ==
    Flatten([k \in 1..Len(heap[Root]._sections) |-> heap[heap[Root]._sections[k]]._sections])

\* the exception a walk over the tree raises: a condition section without a body
\* has no column_names, a row shorter than the identifier column has no such cell
HtmlRaised(heap, idcol) ==
    LET cs == CondSections(heap)
        bad(c) == IF heap[c]._body = None THEN "AttributeError"
                  ELSE IF \E r \in 1..nrow(heap[c]._body[1]) :
                             idcol >= ncol(heap[c]._body[1]) \/ idcol < -ncol(heap[c]._body[1])
                       THEN "IndexError"
                       ELSE "none"
    IN IF \A k \in 1..Len(cs) : bad(cs[k]) = "none" THEN "none"
       ELSE bad(cs[CHOOSE k \in 1..Len(cs) :
                      bad(cs[k]) # "none" /\ \A j \in 1..(k - 1) : bad(cs[j]) = "none"])

\* HTMLFormatter(id_column=idcol).format(report): the string returned
HTMLFormatter_format(heap, idcol) ==
    IF HtmlRaised(heap, idcol) # "none"
    THEN [raised |-> HtmlRaised(heap, idcol), text |-> <<>>, doc |-> None]
    ELSE [raised |-> "none",
          text |-> Join(
              << <<"<!DOCTYPE html>">>, <<"<html>">>,
                 Fmt("<title>", heap[Root]._hdr.title, "</title>"), <<"<head>">> >>
              \o (IF DEFAULT_CSS # <<>> THEN << <<"<style>">>, DEFAULT_CSS, <<"</style>">> >>
                  ELSE <<>>)
              \o << <<"</head>">>, <<"<body>">>,
                    Fmt("<h1>", heap[Root]._hdr.title, "</h1>"),
                    <<"<dl class=\"rptmeta\">">> >>
              \o HtmlHeaderLines(heap[Root]._hdr)
              \o << <<"</dl>">> >>
              \o Flatten([k \in 1..Len(heap[Root]._sections) |->
                             HtmlSectionLines(heap, heap[Root]._sections[k], idcol)])
              \o << <<"</body>">>, <<"</html>">> >>,
              HtmlSep),
          doc |-> None]

\* the heap as HTMLFormatter.format leaves it: the rows of every table it walked
HtmlHeapAfter(heap, idcol) ==
    [n \in 1..Len(heap) |->
        IF HtmlRaised(heap, idcol) = "none"
           /\ \E k \in 1..Len(CondSections(heap)) : CondSections(heap)[k] = n
        THEN [heap[n] EXCEPT !._body[1]._rows =
                 [k \in 1..Len(@) |->
                     HtmlRowLoop(heap[n]._body[1]._rows, 1, None, 0, idcol)[k].stored]]
        ELSE heap[n]]

(***************************************************************************)
(* JSONFormatter and the encoders                                          *)
(***************************************************************************)
\* objects json.dumps cannot serialize natively and hands to the encoder's default()
HeaderObj(h) == [kind |-> "Header", header |-> h, table |-> NoTable]

TableObj(t) == [kind |-> "Table", header |-> Header(<<>>), table |-> t]

Unserializable == [ok |-> FALSE, dict |-> <<>>, list |-> <<>>]

\* MongoJSONEncoder.default(o) converts database scalars only: a Header or a
\* Table is a value it does not recognize, which fails as an unsupported type
MongoJSONEncoder_default(o) == Unserializable

\* ReportJSONEncoder.default(o)
ReportJSONEncoder_default(o) ==
    IF o.kind = "Header" THEN [ok |-> TRUE, dict |-> to_dict(o.header), list |-> <<>>]
    ELSE IF o.kind = "Table" THEN [ok |-> TRUE, dict |-> <<>>, list |-> values(o.table)]
    ELSE MongoJSONEncoder_default(o)

default(cls, o) ==
    IF cls = "ReportJSONEncoder" THEN ReportJSONEncoder_default(o)
    ELSE MongoJSONEncoder_default(o)

\* the encoder class JSONFormatter.format passes to json.dumps
JSONFormatter_cls == "MongoJSONEncoder"

\* the objects of the document that need default(): every header walked, and
\* the body of every condition section that has one (None is serialized as null)
JsonObjects(heap) ==
    {HeaderObj(heap[Root]._hdr)}
    \cup {HeaderObj(heap[heap[Root]._sections[k]]._hdr) : k \in 1..Len(heap[Root]._sections)}
    \cup {HeaderObj(heap[CondSections(heap)[k]]._hdr) : k \in 1..Len(CondSections(heap))}
    \cup {TableObj(heap[CondSections(heap)[k]]._body[1]) :
             k \in {j \in 1..Len(CondSections(heap)) : heap[CondSections(heap)[j]]._body # None}}

\* json.dumps(obj, cls=cls) read back: the document as a value
JsonDoc(heap, cls) ==
    [title |-> heap[Root]._hdr.title,
     info |-> default(cls, HeaderObj(heap[Root]._hdr)).dict,
     sections |->
        [k \in 1..Len(heap[Root]._sections) |->
            LET sct == heap[Root]._sections[k]
            IN [title |-> heap[sct]._hdr.title,
                info |-> default(cls, HeaderObj(heap[sct]._hdr)).dict,
                conditions |->
                    [j \in 1..Len(heap[sct]._sections) |->
                        LET cs == heap[sct]._sections[j]
                        IN [title |-> heap[cs]._hdr.title,
                            info |-> default(cls, HeaderObj(heap[cs]._hdr)).dict,
                            violations |->
                                IF heap[cs]._body = None THEN None
                                ELSE Some(default(cls, TableObj(heap[cs]._body[1])).list)]]]]]

\* JSONFormatter.format(report)
JSONFormatter_format(heap) ==
    IF \E o \in JsonObjects(heap) : ~default(JSONFormatter_cls, o).ok
    THEN [raised |-> "TypeError", text |-> <<>>, doc |-> None]
    ELSE [raised |-> "none", text |-> <<>>, doc |-> Some(JsonDoc(heap, JSONFormatter_cls))]

(***************************************************************************)
(* MarkdownFormatter                                                       *)
(***************************************************************************)
\* d.iteritems(): the items of a dict come in an order the dict chooses, here
\* the order in which keyorder lists the keys
iteritems(d, keyorder) ==
    LET ks == SelectSeq(keyorder, LAMBDA k : k \in DOMAIN d)
    IN [i \in 1..Len(ks) |-> <<ks[i], d[ks[i]]>>]

\* MarkdownFormatter._mapdump(d)
_mapdump(d, keyorder) ==
    Join([i \in 1..Len(iteritems(d, keyorder)) |->
             iteritems(d, keyorder)[i][1] \o <<"=">> \o str(iteritems(d, keyorder)[i][2])],
         <<", ">>)

\* an info section that dumps the header's entries one by one
_append_info_section_PerEntry(info, keyorder) ==
    IF info._kv # <<>>
    THEN << <<"Info: ">>
            \o Join([i \in 1..Len(info._kv) |->
                        info._kv[i][1] \o <<"=">> \o str(info._kv[i][2])], <<", ">>) >>
    ELSE <<>>

\* MarkdownFormatter._append_info_section(lines, info): the lines appended.  A
\* Header defines neither __len__ nor __nonzero__, so "not info" is false.
_append_info_section(info, keyorder) ==
    IF to_dict(info) # <<>>
    THEN << <<"Info: ">> \o _mapdump(to_dict(info), keyorder) >>
    ELSE <<>>

\* MarkdownFormatter._append_heading(lines, level, title): the line appended
_append_heading(level, title) ==
    << <<"\n">> \o [i \in 1..level |-> "#"] \o <<" ">> \o title \o <<" ">>
       \o [i \in 1..level |-> "#"] \o <<"\n">> >>

\* "{:Ns}".format(s): s padded with spaces on the right to n characters
PadTo(cs, n) == cs \o [i \in 1..(IF n > Len(cs) THEN n - Len(cs) ELSE 0) |-> " "]

\* MarkdownFormatter._fixed_width(values, widths), values already passed through str()
_fixed_width(cells, widths) ==
    Flatten([i \in 1..(IF Len(cells) < Len(widths) THEN Len(cells) ELSE Len(widths)) |->
                PadTo(cells[i], widths[i] + 1)])

\* MarkdownFormatter._append_violations(lines, data): the lines appended
_append_violations(data) ==
    << <<"\nViolations:\n">>,
       <<"    ">> \o _fixed_width(column_names(data), column_widths(data)) >>
    \o [r \in 1..nrow(data) |->
           <<"    ">> \o _fixed_width([c \in 1..Len(data._rows[r]) |-> str(data._rows[r][c])],
                                      column_widths(data))]

\* MarkdownFormatter.format(report)
MarkdownFormatter_format(heap, keyorder) ==
    IF \E k \in 1..Len(CondSections(heap)) : heap[CondSections(heap)[k]]._body = None
    THEN [raised |-> "AttributeError", text |-> <<>>, doc |-> None]
    ELSE [raised |-> "none",
          text |-> Join(
              _append_heading(1, heap[Root]._hdr.title)
              \o _append_info_section(heap[Root]._hdr, keyorder)
              \o Flatten([k \in 1..Len(heap[Root]._sections) |->
                    LET sct == heap[Root]._sections[k]
                    IN _append_heading(2, heap[sct]._hdr.title)
                       \o _append_info_section(heap[sct]._hdr, keyorder)
                       \o Flatten([j \in 1..Len(heap[sct]._sections) |->
                             LET cs == heap[sct]._sections[j]
                             IN _append_heading(3, heap[cs]._hdr.title)
                                \o _append_info_section(heap[cs]._hdr, keyorder)
                                \o _append_violations(heap[cs]._body[1])])]),
              <<"\n">>),
          doc |-> None]

(***************************************************************************)
(* Emailer                                                                 *)
(***************************************************************************)
\* Emailer.__init__(sender, recipients, subject, server, port)
Emailer(sender, recipients, subject, server, port) ==
    [_sender |-> sender, _recipients |-> recipients, _subject |-> subject,
     _server |-> server, _port |-> port]

\* the SMTP calls of the try block up to the first that fails: SMTP(**conn_kwargs),
\* sendmail(sender, recipients, msg.as_string()), quit()
SmtpCalls(em, text, sub_fmt, fail) ==
    LET conn == [op |-> "SMTP", host |-> em._server, port |-> em._port,
                 msg |-> None, ok |-> fail # "connect"]
        msg == [Subject |-> em._subject, From |-> em._sender,
                To |-> Join(em._recipients, <<", ">>), subtype |-> sub_fmt, payload |-> text]
        mail == [op |-> "sendmail", host |-> em._server, port |-> em._port,
                 msg |-> Some(msg), ok |-> fail # "sendmail"]
        quit == [op |-> "quit", host |-> em._server, port |-> em._port,
                 msg |-> None, ok |-> fail # "quit"]
    IN IF fail = "connect" THEN <<conn>>
       ELSE IF fail = "sendmail" THEN <<conn, mail>>
       ELSE <<conn, mail, quit>>

\* send with s.quit() after the try block, where its failure is not caught
send_QuitOutsideTry(em, text, fmt, fail) ==
    IF Len(split(fmt, "/")) # 2
    THEN [raised |-> "ValueError", ret |-> 0, smtp |-> <<>>]
    ELSE [raised |-> IF fail = "quit" THEN "SMTPException" ELSE "none",
          ret |-> IF fail \in {"connect", "sendmail"} THEN 0 ELSE Len(em._recipients),
          smtp |-> SmtpCalls(em, text, split(fmt, "/")[2], fail)]

\* Emailer.send(text, fmt), with the transport failing at step fail ("none": at
\* no step): the exception that reaches the caller, the value returned and the
\* SMTP calls made
send(em, text, fmt, fail) ==
    IF Len(split(fmt, "/")) # 2
    THEN [raised |-> "ValueError", ret |-> 0, smtp |-> <<>>]
    ELSE [raised |-> "none",
          ret |-> IF fail = "none" THEN Len(em._recipients) ELSE 0,
          smtp |-> SmtpCalls(em, text, split(fmt, "/")[2], fail)]

(***************************************************************************)
(* Calls and their inputs                                                  *)
(***************************************************************************)
Call(op, raised, arg, n, b) == [op |-> op, raised |-> raised, arg |-> arg, n |-> n, b |-> b]

NoCall == Call("none", "none", PyInt(0), 0, FALSE)

NoEmailer == Emailer(<<"me@localhost">>, <<>>, <<"Report">>, <<"localhost">>, None)

NoOut == [raised |-> "none", text |-> <<>>, doc |-> <<>>]

ColId == <<"i", "d">>
ColN == <<"n">>
ColZ == <<"z", "z">>

ColnameChoices == {<<ColId>>, <<ColId, ColN>>}

CellValues == {PyInt(5), PyInt(12), PyStr(<<"a", "b", "d">>)}

\* rows of every length from 0 to one more than the table's width
RowInputs(t) == UNION {[1..k -> CellValues] : k \in 0..(t._width + 1)}

SortArgs == {PyInt(-1), PyInt(0), PyInt(1), PyInt(2), PyStr(ColId), PyStr(ColN), PyStr(ColZ)}

(***************************************************************************)
(* A Table driven by add and sortby calls                                  *)
(***************************************************************************)
InitTable ==
    /\ tbl \in {Table(cn) : cn \in ColnameChoices}
    /\ call = NoCall
    /\ nodes = <<>>
    /\ out = NoOut
    /\ emailer = NoEmailer
    /\ smtp = <<>>

TableAdd ==
    \E vals \in RowInputs(tbl) :
        /\ nrow(tbl) < MaxRows
        /\ tbl' = add(tbl, vals).t
        /\ call' = Call("add", add(tbl, vals).raised, PyInt(0), Len(vals), FALSE)
        /\ UNCHANGED <<nodes, out, emailer, smtp>>

TableSortby ==
    \E arg \in SortArgs :
        /\ tbl' = sortby(tbl, arg).t
        /\ call' = Call("sortby", sortby(tbl, arg).raised, arg, 0, FALSE)
        /\ UNCHANGED <<nodes, out, emailer, smtp>>

NextTable == TableAdd \/ TableSortby

SpecTable == InitTable /\ [][NextTable]_vars

(***************************************************************************)
(* Properties of Table                                                     *)
(***************************************************************************)
Max(S) == CHOOSE m \in S : \A x \in S : x <= m

Count(seq, x) == Cardinality({i \in 1..Len(seq) : seq[i] = x})

IsReordering(a, b) ==
    /\ Len(a) = Len(b)
    /\ \A i \in 1..Len(a) : Count(a, a[i]) = Count(b, a[i])

NonDecreasing(rows, colnum) ==
    \A i, j \in 1..Len(rows) :
        i < j => ~PyLess(rows[j][colnum + 1], rows[i][colnum + 1])

\* the zero-based column a valid sortby argument names
ColOf(t, arg) == IF arg.t = "int" THEN arg.n ELSE index(t._colnames, arg.s)

ValidSortArg(t, arg) ==
    IF arg.t = "int" THEN 0 <= arg.n /\ arg.n < ncol(t)
    ELSE \E i \in 1..ncol(t) : t._colnames[i] = arg.s

\* C1: Table.add(values) with len(values) # ncol fails with an error; with
\* len(values) = ncol it succeeds and nrow grows by exactly 1, after any
\* sequence of earlier add / sortby calls.
C1_AddChecksLength ==
    [][call'.op = "add" =>
          IF call'.n # ncol(tbl)
          THEN call'.raised = "ValueError"
          ELSE call'.raised = "none" /\ nrow(tbl') = nrow(tbl) + 1]_vars

\* a failed add on a table that already holds rows added and sorted before
C1_Witness ==
    /\ call.op = "add" /\ call.raised = "ValueError" /\ call.n < ncol(tbl)
    /\ nrow(tbl) = 2

\* C3: in every reachable state the tracked width of column i is the maximum of
\* the length of the column's name and the string lengths of all values stored
\* in the column; and no step ever makes a tracked width smaller.
C3_WidthIsMax ==
    /\ [](\A i \in 1..ncol(tbl) :
            column_widths(tbl)[i] =
                Max({Len(column_names(tbl)[i])} \cup
                    {Len(str(tbl._rows[r][i])) : r \in 1..nrow(tbl)}))
    /\ [][\A i \in 1..ncol(tbl) : column_widths(tbl')[i] >= column_widths(tbl)[i]]_vars

\* a narrow value was added after a wide one, and a failed add came last
C3_Witness ==
    /\ nrow(tbl) = 2 /\ ncol(tbl) = 2
    /\ Len(str(tbl._rows[1][2])) = 3 /\ Len(str(tbl._rows[2][2])) = 1
    /\ column_widths(tbl)[2] = 3
    /\ call.op = "add" /\ call.raised = "ValueError"

\* C4: after sortby(c) for a valid column name or index c the rows are a
\* reordering of the rows held before and are non-decreasing in column c under
\* the natural ordering; a second sortby on the same column changes no row's place.
C4_SortbySorts ==
    [][call'.op = "sortby" /\ ValidSortArg(tbl, call'.arg) =>
          /\ call'.raised = "none"
          /\ IsReordering(tbl._rows, tbl'._rows)
          /\ NonDecreasing(tbl'._rows, ColOf(tbl, call'.arg))
          /\ (call.op = "sortby" /\ call.raised = "none"
              /\ ColOf(tbl, call.arg) = ColOf(tbl, call'.arg)
                => tbl'._rows = tbl._rows)]_vars

\* a sorted table of three rows with two distinct rows sharing a key, and a
\* number sorted before a string
C4_Witness ==
    /\ call.op = "sortby" /\ call.raised = "none" /\ nrow(tbl) = 3 /\ ncol(tbl) = 2
    /\ ColOf(tbl, call.arg) = 0
    /\ tbl._rows[1][1] = tbl._rows[2][1] /\ tbl._rows[1][2] # tbl._rows[2][2]
    /\ PyLess(tbl._rows[3][2], tbl._rows[2][2])
    /\ tbl._rows[2][1].t = "int" /\ tbl._rows[3][1].t = "str"

\* C9: sortby with a name that is no column name, or with an integer index
\* outside [0, ncol), fails with an error and leaves the rows (order and count)
\* as they were.
C9_SortbyRejects ==
    [][call'.op = "sortby" /\ ~ValidSortArg(tbl, call'.arg) =>
          call'.raised = "ValueError" /\ tbl'._rows = tbl._rows]_vars

\* a rejected sortby(-1) on a table whose last column is not in order
C9_Witness ==
    /\ call.op = "sortby" /\ call.raised = "ValueError" /\ call.arg = PyInt(-1)
    /\ nrow(tbl) = 2 /\ PyLess(tbl._rows[2][ncol(tbl)], tbl._rows[1][ncol(tbl)])

(***************************************************************************)
(* A report tree grown section by section, its tables filled, is_empty asked *)
(***************************************************************************)
TitleT == <<"T">>
TitleS == <<"S">>

\* the one-column rows the sections' tables are filled with
BodyRows == {<<PyInt(5)>>}

\* a new section's body: none (a container) or an empty one-column table
BodyChoices == {None, Some(Table(<<ColId>>))}

InitEmpty ==
    /\ nodes = <<Report(Header(TitleT))>>
    /\ tbl = NoTable
    /\ call = NoCall
    /\ out = NoOut
    /\ emailer = NoEmailer
    /\ smtp = <<>>

\* parent.add_section(ReportSection(SectionHeader(title), body))
AddSection ==
    \E parent \in 1..Len(nodes), body \in BodyChoices :
        /\ Len(nodes) < 1 + MaxSections
        /\ nodes' = add_section(nodes, parent, ReportSection(Header(TitleS), body))
        /\ call' = Call("add_section", "none", PyInt(0), parent, FALSE)
        /\ UNCHANGED <<tbl, out, emailer, smtp>>

\* section.body.add(row), rows drawn from rowset, tables kept below maxrows rows
BodyAdd(rowset, maxrows) ==
    \E n \in 1..Len(nodes), row \in rowset :
        /\ nodes[n]._body # None
        /\ nrow(nodes[n]._body[1]) < maxrows
        /\ nodes' = [nodes EXCEPT ![n]._body = Some(add(nodes[n]._body[1], row).t)]
        /\ call' = Call("add", add(nodes[n]._body[1], row).raised, PyInt(0), Len(row), FALSE)
        /\ out' = NoOut
        /\ UNCHANGED <<tbl, emailer, smtp>>

\* report.is_empty()
IsEmpty ==
    /\ nodes' = is_empty(nodes, Root).heap
    /\ call' = Call("is_empty", "none", PyInt(0), 0, is_empty(nodes, Root).ret)
    /\ UNCHANGED <<tbl, out, emailer, smtp>>

NextEmpty == AddSection \/ BodyAdd(BodyRows, MaxBodyRows) \/ IsEmpty

SpecEmpty == InitEmpty /\ [][NextEmpty]_vars

\* the objects reachable from object n through _sections
RECURSIVE Reachable(_, _)
Reachable(heap, n) ==
    {n} \cup UNION {Reachable(heap, heap[n]._sections[k]) : k \in 1..Len(heap[n]._sections)}

\* the depth of object n below the Report
RECURSIVE Depth(_, _)
Depth(heap, n) ==
    IF n = Root THEN 0
    ELSE 1 + Depth(heap, CHOOSE p \in 1..Len(heap) :
                            \E k \in 1..Len(heap[p]._sections) : heap[p]._sections[k] = n)

AllTablesEmpty(heap) ==
    \A n \in Reachable(heap, Root) :
        heap[n]._body # None => nrow(heap[n]._body[1]) = 0

\* the tree without the attribute is_empty leaves behind
TreeOf(heap) == [n \in 1..Len(heap) |-> [heap[n] EXCEPT !._total_rows = None]]

\* C2: Report.is_empty() returns true iff every table reachable in the tree (the
\* body of every section and sub-section, at any depth) has zero rows, a report
\* without sections included; calling it again on the unchanged tree returns the same.
C2_IsEmptyIffNoRows ==
    /\ [](call.op = "is_empty" => (call.b <=> AllTablesEmpty(nodes)))
    /\ [][call.op = "is_empty" /\ call'.op = "is_empty" =>
            TreeOf(nodes') = TreeOf(nodes) /\ call'.b = call.b]_vars

\* is_empty answered false on a tree whose only rows sit two levels below the top-level section
C2_Witness ==
    /\ call.op = "is_empty" /\ ~call.b
    /\ \E n \in 1..Len(nodes) :
          /\ Depth(nodes, n) = 3
          /\ nodes[n]._body # None /\ nrow(nodes[n]._body[1]) > 0
          /\ \A m \in 1..Len(nodes) :
                m # n /\ nodes[m]._body # None => nrow(nodes[m]._body[1]) = 0

(***************************************************************************)
(* A built report handed to the HTML and JSON formatters                   *)
(***************************************************************************)
KeyA == <<"a">>
KeyB == <<"b">>
TitleC == <<"C">>

\* Report('T') without sections
ShapeBare == <<Report(Header(TitleT))>>

\* Report('T') -> section 'S' (info b=2) -> condition 'C' with a table id, n
ShapeTable ==
    add_section(
        add_section(ShapeBare, Root,
                    ReportSection(Header_add(Header(TitleS), KeyB, PyInt(2)), None)),
        2, ReportSection(Header(TitleC), Some(Table(<<ColId, ColN>>))))

\* Report('T') -> section 'S' -> condition 'C' that is a container without a body
ShapeNoBody ==
    add_section(
        add_section(ShapeBare, Root, ReportSection(Header(TitleS), None)),
        2, ReportSection(Header(TitleC), None))

\* identifier values: zero and a non-zero number, the empty and a non-empty string
IdValues == {PyInt(0), PyInt(5), PyStr(<<>>), PyStr(<<"a">>)}

IdRows == {<<id, PyInt(1)>> : id \in IdValues}

HtmlPairs == {<<KeyA, PyInt(1)>>, <<KeyB, PyInt(-3)>>}

IdColumns == {0, 1}

InitFormat ==
    /\ nodes \in {ShapeBare, ShapeTable, ShapeNoBody}
    /\ tbl = NoTable
    /\ call = NoCall
    /\ out = NoOut
    /\ emailer = NoEmailer
    /\ smtp = <<>>

\* the number of header entries in the whole report
TotalEntries(heap) == SumSeq([m \in 1..Len(heap) |-> Len(heap[m]._hdr._kv)])

\* header.add(key, value) on the header of one of the target objects
HeaderAdd(targets, pairs) ==
    \E n \in targets \cap (1..Len(nodes)), kv \in pairs :
        /\ TotalEntries(nodes) <= MaxKV
        /\ nodes' = [nodes EXCEPT ![n]._hdr = Header_add(@, kv[1], kv[2])]
        /\ call' = Call("header_add", "none", kv[2], n, FALSE)
        /\ out' = NoOut
        /\ UNCHANGED <<tbl, emailer, smtp>>

\* HTMLFormatter(id_column=idcol).format(report)
HtmlFormat ==
    \E idcol \in IdColumns :
        /\ out' = HTMLFormatter_format(nodes, idcol)
        /\ nodes' = HtmlHeapAfter(nodes, idcol)
        /\ call' = Call("html", HTMLFormatter_format(nodes, idcol).raised, PyInt(0), idcol, FALSE)
        /\ UNCHANGED <<tbl, emailer, smtp>>

\* JSONFormatter().format(report)
JsonFormat ==
    /\ out' = JSONFormatter_format(nodes)
    /\ call' = Call("json", JSONFormatter_format(nodes).raised, PyInt(0), 0, FALSE)
    /\ UNCHANGED <<tbl, nodes, emailer, smtp>>

NextFormat ==
    BodyAdd(IdRows, MaxRows) \/ HeaderAdd({Root}, HtmlPairs) \/ HtmlFormat \/ JsonFormat

SpecFormat == InitFormat /\ [][NextFormat]_vars

\* the positions, in order, of the lines whose first chunk is first
RECURSIVE PositionsFrom(_, _, _)
PositionsFrom(lines, k, first) ==
    IF k > Len(lines) THEN <<>>
    ELSE (IF lines[k] # <<>> /\ lines[k][1] = first THEN <<k>> ELSE <<>>)
         \o PositionsFrom(lines, k + 1, first)

\* the rendered body rows of an HTML document: class and text of the cell in column idcol
HtmlRowsOf(text, idcol) ==
    LET lines == split(text, "\n")
        at == PositionsFrom(lines, 1, "<tr class=\"")
    IN [k \in 1..Len(at) |->
           [rclass |-> lines[at[k]][2],
            idcell |-> SubSeq(lines[at[k] + 1 + idcol], 2, Len(lines[at[k] + 1 + idcol]) - 1)]]

\* the one table of ShapeTable
TheTable == nodes[3]._body[1]

HasTable == Len(nodes) = 3 /\ nodes[3]._body # None

HtmlOfTable == call.op = "html" /\ out.raised = "none" /\ HasTable

\* C6: in the HTML rendering of a table, every row whose identifier equals that
\* of the row before it, whatever the identifier value, has a blank id cell and
\* the class of the row before it; every other row (the first included) shows
\* its id and the class index advances by one, so the class alternates.
C6_GroupsEveryIdentifier ==
    HtmlOfTable =>
        LET tr == HtmlRowsOf(out.text, call.n)
            key(k) == TheTable._rows[k][call.n + 1]
        IN /\ Len(tr) = nrow(TheTable)
           /\ \A k \in 1..Len(tr) :
                 IF k > 1 /\ key(k) = key(k - 1)
                 THEN tr[k].idcell = <<>> /\ tr[k].rclass = tr[k - 1].rclass
                 ELSE /\ tr[k].idcell = str(key(k))
                      /\ tr[k].rclass = (IF k = 1 THEN "odd"
                                         ELSE IF tr[k - 1].rclass = "odd" THEN "even"
                                         ELSE "odd")

\* The grouping as the code performs it: a row is grouped with the row before
\* it when the identifiers are equal and truthy (not 0, not '').
C6_GroupsTruthyIdentifier ==
    HtmlOfTable =>
        LET tr == HtmlRowsOf(out.text, call.n)
            key(k) == TheTable._rows[k][call.n + 1]
        IN /\ Len(tr) = nrow(TheTable)
           /\ \A k \in 1..Len(tr) :
                 IF k > 1 /\ key(k) = key(k - 1) /\ Truthy(key(k))
                 THEN tr[k].idcell = <<>> /\ tr[k].rclass = tr[k - 1].rclass
                 ELSE /\ tr[k].idcell = str(key(k))
                      /\ tr[k].rclass = (IF k = 1 THEN "odd"
                                         ELSE IF tr[k - 1].rclass = "odd" THEN "even"
                                         ELSE "odd")

\* ids [5, 5, a] rendered: the spec's [A, A, B]
C6_Witness ==
    /\ HtmlOfTable /\ call.n = 0 /\ nrow(TheTable) = 3
    /\ TheTable._rows[1][1] = PyInt(5) /\ TheTable._rows[2][1] = PyInt(5)
    /\ TheTable._rows[3][1] = PyStr(<<"a">>)
    /\ HtmlRowsOf(out.text, 0) =
          <<[rclass |-> "odd", idcell |-> <<"5">>],
            [rclass |-> "odd", idcell |-> <<>>],
            [rclass |-> "even", idcell |-> <<"a">>]>>

\* C10: HTMLFormatter.format leaves the report tree as it found it (every stored
\* row with its identifier cell, every header entry, the section lists), and
\* formatting the same report again returns the same string.
C10_FormatLeavesTree ==
    /\ [][call'.op = "html" => nodes' = nodes]_vars
    /\ [][call.op = "html" /\ call'.op = "html" /\ call'.n = call.n => out' = out]_vars

\* a rendering that blanked a repeated identifier
C10_Witness ==
    /\ HtmlOfTable /\ call.n = 0 /\ nrow(TheTable) >= 2
    /\ TheTable._rows[1][1] = PyInt(5) /\ TheTable._rows[2][1] = PyInt(5)
    /\ HtmlRowsOf(out.text, 0)[2].idcell = <<>>
    /\ Len(nodes[Root]._hdr._kv) > 0

\* C5: JSONFormatter.format succeeds for any report built from Header and Table
\* objects, every Header serialized as its dict form and every Table as its list
\* of row-dicts; for the report titled T with one section holding one condition
\* with a 2-row / 2-column table the document read back has title T and
\* sections[0].conditions[0].violations of length 2.
C5_JsonFormatSucceeds ==
    call.op = "json" =>
        /\ out.raised = "none"
        /\ out.doc # None
        /\ out.doc[1].title = nodes[Root]._hdr.title
        /\ out.doc[1].info = to_dict(nodes[Root]._hdr)
        /\ (HasTable /\ nrow(TheTable) = 2 =>
               /\ out.doc[1].sections[1].conditions[1].violations # None
               /\ Len(out.doc[1].sections[1].conditions[1].violations[1]) = 2)

(***************************************************************************)
(* A report whose headers are filled, handed to the Markdown formatter     *)
(***************************************************************************)
\* ShapeTable with two rows in its table
ShapeFilled ==
    [ShapeTable EXCEPT ![3]._body =
        Some(add(add(ShapeTable[3]._body[1], <<PyInt(5), PyInt(12)>>).t,
                 <<PyStr(<<"a", "b", "d">>), PyInt(1)>>).t)]

MdPairs == {<<k, v>> : k \in {KeyA, KeyB}, v \in {PyInt(1), PyInt(2)}}

\* the orders in which a dict may list the keys a and b
KeyOrders == {<<KeyA, KeyB>>, <<KeyB, KeyA>>}

InitMd ==
    /\ nodes \in {ShapeBare, ShapeTable, ShapeFilled, ShapeNoBody}
    /\ tbl = NoTable
    /\ call = NoCall
    /\ out = NoOut
    /\ emailer = NoEmailer
    /\ smtp = <<>>

\* MarkdownFormatter().format(report)
MdFormat ==
    \E keyorder \in KeyOrders :
        /\ out' = MarkdownFormatter_format(nodes, keyorder)
        /\ call' = Call("md", MarkdownFormatter_format(nodes, keyorder).raised,
                        PyInt(0), 0, FALSE)
        /\ UNCHANGED <<tbl, nodes, emailer, smtp>>

NextMd == HeaderAdd(1..3, MdPairs) \/ MdFormat

SpecMd == InitMd /\ [][NextMd]_vars

\* the headers a formatter walks, in order: the report's, then each section's
\* followed by those of its condition sections
WalkedHeaders(heap) ==
    <<heap[Root]._hdr>>
    \o Flatten([k \in 1..Len(heap[Root]._sections) |->
          LET sct == heap[Root]._sections[k]
          IN <<heap[sct]._hdr>>
             \o [j \in 1..Len(heap[sct]._sections) |-> heap[heap[sct]._sections[j]]._hdr]])

IsHeadingLine(line) == line # <<>> /\ line[1] = "#"

IsInfoLine(line) == line # <<>> /\ line[1] = "Info: "

\* the heading and Info lines of a Markdown document, in order
MdOutline(text) ==
    SelectSeq(split(text, "\n"), LAMBDA l : IsHeadingLine(l) \/ IsInfoLine(l))

\* the Info line that follows the n-th heading, if there is one
InfoAfterHeading(text, n) ==
    LET ol == MdOutline(text)
        at == PositionsFrom(ol, 1, "#")
    IN IF at[n] < Len(ol) /\ IsInfoLine(ol[at[n] + 1]) THEN Some(ol[at[n] + 1]) ELSE None

\* the k=v items of an Info line, each as <<key, value text>>
InfoItems(line) ==
    LET items == split(Tail(line), ", ")
    IN [i \in 1..Len(items) |->
           <<split(items[i], "=")[1], split(items[i], "=")[2]>>]

MdDone == call.op = "md" /\ out.raised = "none"

\* one heading per walked header, and Info lines only directly after a heading
MdOutlineShape(text, heap) ==
    /\ Len(PositionsFrom(MdOutline(text), 1, "#")) = Len(WalkedHeaders(heap))
    /\ \A i \in 1..Len(MdOutline(text)) :
          IsInfoLine(MdOutline(text)[i]) => i > 1 /\ IsHeadingLine(MdOutline(text)[i - 1])

\* C8 as claimed: no "Info:" line for a header without entries; for a header
\* with entries exactly one line "Info: k1=v1, k2=v2, ..." that lists the
\* entries in insertion order.
C8_InfoListsEntriesInOrder ==
    MdDone =>
        /\ MdOutlineShape(out.text, nodes)
        /\ \A n \in 1..Len(WalkedHeaders(nodes)) :
              LET h == WalkedHeaders(nodes)[n]
              IN IF h._kv = <<>> THEN InfoAfterHeading(out.text, n) = None
                 ELSE /\ InfoAfterHeading(out.text, n) # None
                      /\ InfoItems(InfoAfterHeading(out.text, n)[1]) =
                            [i \in 1..Len(h._kv) |-> <<h._kv[i][1], str(h._kv[i][2])>>]

\* C8 amended: no "Info:" line for a header without entries; for a header with
\* entries exactly one line "Info: k1=v1, ..." with one item per distinct key,
\* showing the value added last for that key, the keys in the order the dict
\* lists them (which need not be the order of insertion).
C8_InfoListsDictItems ==
    MdDone =>
        /\ MdOutlineShape(out.text, nodes)
        /\ \A n \in 1..Len(WalkedHeaders(nodes)) :
              LET h == WalkedHeaders(nodes)[n]
              IN IF h._kv = <<>> THEN InfoAfterHeading(out.text, n) = None
                 ELSE /\ InfoAfterHeading(out.text, n) # None
                      /\ LET items == InfoItems(InfoAfterHeading(out.text, n)[1])
                         IN /\ Len(items) = Cardinality(Keys(h))
                            /\ {items[i] : i \in 1..Len(items)} =
                                  {<<k, str(to_dict(h)[k])>> : k \in Keys(h)}

\* a report header with entries a=1 then b=2 rendered as "Info: a=1, b=2", the
\* condition's header without entries rendered without an Info line
C8_Witness ==
    /\ MdDone /\ HasTable
    /\ nodes[Root]._hdr._kv = <<<<KeyA, PyInt(1)>>, <<KeyB, PyInt(2)>>>>
    /\ nodes[3]._hdr._kv = <<>>
    /\ InfoAfterHeading(out.text, 1) = Some(<<"Info: ", "a", "=", "1", ", ", "b", "=", "2">>)
    /\ InfoAfterHeading(out.text, 3) = None

(***************************************************************************)
(* An Emailer asked to send                                                *)
(***************************************************************************)
Addresses == {<<"you@remote.host">>, <<"x@remote.host">>}

RecipientLists == UNION {[1..k -> Addresses] : k \in 0..MaxRecipients}

Ports == {None, Some(25)}

\* format names: two well-formed ones, one without and one with two slashes
Formats == {<<"text", "/", "html">>, <<"image", "/", "plain">>,
            <<"html">>, <<"text", "/", "html", "/", "x">>}

\* the step at which the transport fails
Failures == {"none", "connect", "sendmail", "quit"}

BodyText == <<"body">>

InitEmail ==
    /\ emailer \in {Emailer(<<"me@localhost">>, r, <<"Report">>, <<"localhost">>, p) :
                       r \in RecipientLists, p \in Ports}
    /\ smtp = <<>>
    /\ call = NoCall
    /\ tbl = NoTable
    /\ nodes = <<>>
    /\ out = NoOut

\* emailer.send(text, fmt)
Send ==
    \E fmt \in Formats, fail \in Failures :
        /\ smtp' = send(emailer, BodyText, fmt, fail).smtp
        /\ call' = Call("send", send(emailer, BodyText, fmt, fail).raised, PyStr(fmt),
                        send(emailer, BodyText, fmt, fail).ret, FALSE)
        /\ UNCHANGED <<emailer, tbl, nodes, out>>

NextEmail == Send

SpecEmail == InitEmail /\ [][NextEmail]_vars

WellFormed(fmt) ==
    Cardinality({k \in 1..Len(fmt) : fmt[k] = "/"}) = 1

SmtpFailed == \E k \in 1..Len(smtp) : ~smtp[k].ok

\* C7: Emailer.send with a well-formed "main/sub" format never propagates a
\* transport error: when the SMTP connect, sendmail or quit step fails it
\* returns 0, when all succeed it returns the number of configured recipients;
\* nothing else is returned, and no step is tried twice.
C7_SendSwallowsTransportErrors ==
    call.op = "send" /\ WellFormed(call.arg.s) =>
        /\ call.raised = "none"
        /\ call.n = (IF SmtpFailed THEN 0 ELSE Len(emailer._recipients))
        /\ \A j, k \in 1..Len(smtp) : smtp[j].op = smtp[k].op => j = k
        /\ \A k \in 1..Len(smtp) : ~smtp[k].ok => k = Len(smtp)
        /\ (~SmtpFailed => [k \in 1..Len(smtp) |-> smtp[k].op] = <<"SMTP", "sendmail", "quit">>)

\* a send to two recipients whose quit step failed after the mail went out
C7_Witness ==
    /\ call.op = "send" /\ WellFormed(call.arg.s) /\ call.n = 0
    /\ Len(emailer._recipients) = 2
    /\ Len(smtp) = 3 /\ smtp[2].ok /\ ~smtp[3].ok

====
